---- MODULE Spec2Model ----
(***************************************************************************)
(* Model of the EESSI api_data scripts:                                    *)
(*   scripts/merge_data_files.py               strict_merge, timestamps    *)
(*   scripts/process_eessi_software_metadata.py  classifier, aggregator,   *)
(*                                             reference selection         *)
(***************************************************************************)
EXTENDS Integers, Sequences, FiniteSets, TLC

VARIABLES
    heap,        \* merge_data_files: the Python objects (dicts) alive in main
    merged,      \* id of the dict bound to `merged`
    inputs,      \* the files read so far: [root |-> id of `data`, doc |-> its content]
    timestamps,  \* the list `timestamps`
    mpc,         \* position of merge_data_files.main
    merr,        \* the exception that ended main, if any
    outfile,     \* what was written to output_file
    eessi,       \* process_eessi_software_metadata: software_metadata["eessi_version"]
    done,        \* number of files get_all_software has gone through
    all_software_information,
    all_extension_information,
    ppc,         \* position of process_eessi_software_metadata.main
    perr,        \* the exception that ended it, if any
    catalogs,    \* the file suffixes of the catalogs written
    rec,         \* a build record handed to the classifier
    cls          \* what the classifier returned for it

mergeVars == <<heap, merged, inputs, timestamps, mpc, merr, outfile>>
procVars == <<eessi, done, all_software_information, all_extension_information,
              ppc, perr, catalogs>>
classVars == <<rec, cls>>

vars == <<heap, merged, inputs, timestamps, mpc, merr, outfile,
          eessi, done, all_software_information, all_extension_information,
          ppc, perr, catalogs, rec, cls>>

(***************************************************************************)
(* Bounds of the model.                                                    *)
(***************************************************************************)
MaxEntries == 2          \* mapping entries (nested ones included) per document
MaxStamps == 3           \* timestamps handed to earliest_if_within_two_hours
MaxRecords == 2          \* build records in the input of get_all_software
MaxExts == 2             \* extension tuples of a build record
MaxComps == 2            \* component tuples of a build record

KeyOrder == <<"a", "b">>     \* the keys of the documents, in sorted order
DocKeys == {KeyOrder[i] : i \in 1..Len(KeyOrder)}
DocScalars == {1, 2}
InputFiles == <<"in1.yaml", "in2.yaml", "in3.yaml">>

(***************************************************************************)
(* Python values.  A dict is an association list in insertion order.  In a *)
(* document (a parsed YAML tree) a nested dict is held by value, tag "m";  *)
(* on the heap it is held by reference, tag "d".  Everything that is not a *)
(* mapping (numbers, strings, lists) is a scalar, tag "s", compared by ==. *)
(***************************************************************************)
Scalar(n) == [t |-> "s", v |-> n]
Map(m) == [t |-> "m", v |-> m]
Ref(id) == [t |-> "d", v |-> id]

NoErr == <<>>

HasKey(obj, k) == \E i \in 1..Len(obj) : obj[i][1] = k
GetKey(obj, k) == obj[CHOOSE i \in 1..Len(obj) : obj[i][1] = k][2]
SetKey(obj, k, val) ==
    IF HasKey(obj, k)
    THEN [i \in 1..Len(obj) |-> IF obj[i][1] = k THEN <<k, val>> ELSE obj[i]]
    ELSE Append(obj, <<k, val>>)
KeysOf(obj) == [i \in 1..Len(obj) |-> obj[i][1]]

\* The dicts of at most n entries with values in V, their keys in sorted
\* order: the order in which yaml.dump (sort_keys) wrote the input files and
\* in which yaml.load inserts them.
KeyRank(k) == CHOOSE i \in 1..Len(KeyOrder) : KeyOrder[i] = k
AssocLists(V, n) ==
    {s \in UNION {[1..m -> DocKeys \X V] : m \in 0..n} :
        \A i, j \in 1..Len(s) : i < j => KeyRank(s[i][1]) < KeyRank(s[j][1])}

RECURSIVE TreeSize(_)
TreeSize(tree) ==
    IF tree = <<>> THEN 0
    ELSE LET val == tree[1][2]
         IN 1 + (IF val.t = "m" THEN TreeSize(val.v) ELSE 0) + TreeSize(Tail(tree))

ScalarVals == {Scalar(n) : n \in DocScalars}
InnerMaps == AssocLists(ScalarVals, MaxEntries - 1)
Docs ==
    {d \in AssocLists(ScalarVals \cup {Map(m) : m \in InnerMaps}, MaxEntries) :
        TreeSize(d) <= MaxEntries}

(***************************************************************************)
(* yaml.load: a document becomes fresh dict objects on the heap.           *)
(***************************************************************************)
RECURSIVE AllocTree(_, _), AllocEntries(_, _, _)
AllocEntries(h, tree, acc) ==
    IF tree = <<>> THEN [h |-> h, obj |-> acc]
    ELSE LET k == tree[1][1]
             val == tree[1][2]
         IN IF val.t = "m"
            THEN LET sub == AllocTree(h, val.v)
                 IN AllocEntries(sub.h, Tail(tree), Append(acc, <<k, Ref(sub.id)>>))
            ELSE AllocEntries(h, Tail(tree), Append(acc, <<k, val>>))
AllocTree(h, tree) ==
    LET r == AllocEntries(h, tree, <<>>)
    IN [h |-> Append(r.h, r.obj), id |-> Len(r.h) + 1]

(***************************************************************************)
(* The content of a dict as a mapping: one entry per field path, order of  *)
(* keys forgotten (Python's dict equality).                                *)
(***************************************************************************)
RECURSIVE Flat(_, _, _)
Flat(h, id, prefix) ==
    {[p |-> prefix, t |-> "d", v |-> 0]} \cup
    UNION {LET k == h[id][i][1]
               val == h[id][i][2]
           IN IF val.t = "d" THEN Flat(h, val.v, Append(prefix, k))
              ELSE {[p |-> Append(prefix, k), t |-> "s", v |-> val.v]}
           : i \in 1..Len(h[id])}

RECURSIVE FlatTree(_, _)
FlatTree(tree, prefix) ==
    {[p |-> prefix, t |-> "d", v |-> 0]} \cup
    UNION {LET k == tree[i][1]
               val == tree[i][2]
           IN IF val.t = "m" THEN FlatTree(val.v, Append(prefix, k))
              ELSE {[p |-> Append(prefix, k), t |-> "s", v |-> val.v]}
           : i \in 1..Len(tree)}

(***************************************************************************)
(* strict_merge(a, b, path)                                                *)
(***************************************************************************)
\* sub_path = key
SubPathKeyOnly(path, key) == key
\* sub_path = f"{path}.{key}" if path else key
SubPath(path, key) == IF path # "" THEN path \o "." \o key ELSE key

\* a != b, for two values that are not both dicts
NotEqualScalarsOnly(a, b) == a.t = "s" /\ b.t = "s" /\ a # b
NotEqual(a, b) == a # b

RECURSIVE strict_merge(_, _, _, _), MergeLoop(_, _, _, _, _, _)
\* dict.update in place of the recursive merge
strict_merge_update(h, a, b, path) ==
    IF a.t # "d" \/ b.t # "d"
    THEN [h |-> h, v |-> b, err |-> NoErr]
    ELSE [h |-> [h EXCEPT ![a.v] = h[b.v]], v |-> a, err |-> NoErr]
strict_merge(h, a, b, path) ==
    IF a.t # "d" \/ b.t # "d"
    THEN IF NotEqual(a, b)
         THEN [h |-> h, v |-> a, err |-> <<path>>]
         ELSE [h |-> h, v |-> a, err |-> NoErr]
    ELSE MergeLoop(h, a, b, path, KeysOf(h[b.v]), 1)
MergeLoop(h, a, b, path, keys, i) ==
    IF i > Len(keys) THEN [h |-> h, v |-> a, err |-> NoErr]
    ELSE LET key == keys[i]
             sub_path == SubPath(path, key)
         IN IF ~HasKey(h[a.v], key)
            THEN MergeLoop([h EXCEPT ![a.v] = SetKey(@, key, GetKey(h[b.v], key))],
                           a, b, path, keys, i + 1)
            ELSE LET r == strict_merge(h, GetKey(h[a.v], key), GetKey(h[b.v], key), sub_path)
                 IN IF r.err # NoErr
                    THEN [h |-> r.h, v |-> a, err |-> r.err]
                    ELSE MergeLoop([r.h EXCEPT ![a.v] = SetKey(@, key, r.v)],
                                   a, b, path, keys, i + 1)

(***************************************************************************)
(* earliest_if_within_two_hours(timestamps).  A timestamp text is its wall *)
(* clock reading (in seconds from a base date) and its zone designator;    *)
(* None is the value of data.pop("timestamp", None) for a file without     *)
(* one.                                                                    *)
(***************************************************************************)
None == [wall |-> 0, zone |-> "None"]
Walls == {0, 3600, 7200, 7201, 10800}
Zones == {"Z", "+00:00", "+01:00"}
Stamps == {[wall |-> w, zone |-> z] : w \in Walls, z \in Zones}

\* t.replace("Z", "+00:00")
ReplaceZ(t) == IF t.zone = "Z" THEN [t EXCEPT !.zone = "+00:00"] ELSE t
UtcOffset(zone) == IF zone = "+01:00" THEN 3600 ELSE 0
\* datetime.fromisoformat: an aware datetime
FromIsoFormat(t) == [wall |-> t.wall, off |-> UtcOffset(t.zone)]
Instant(dt) == dt.wall - dt.off
\* dt.isoformat().replace("+00:00", "Z")
IsoFormatZ(dt) ==
    [wall |-> dt.wall, zone |-> IF dt.off = 0 THEN "Z" ELSE "+01:00"]

\* list.sort(): stable, aware datetimes compare by instant
RECURSIVE InsertSorted(_, _)
InsertSorted(sorted, dt) ==
    IF sorted = <<>> THEN <<dt>>
    ELSE IF Instant(dt) < Instant(sorted[Len(sorted)])
         THEN Append(InsertSorted(SubSeq(sorted, 1, Len(sorted) - 1), dt),
                     sorted[Len(sorted)])
         ELSE Append(sorted, dt)
RECURSIVE SortTimes(_)
SortTimes(times) ==
    IF times = <<>> THEN <<>>
    ELSE InsertSorted(SortTimes(SubSeq(times, 1, Len(times) - 1)), times[Len(times)])

SpanExceededAtBoundary(diff_seconds) == diff_seconds >= 2 * 3600
SpanExceeded(diff_seconds) == diff_seconds > 2 * 3600

earliest_if_within_two_hours(ts) ==
    IF ts = <<>> THEN [ok |-> FALSE, v |-> None, err |-> "ValueError: No timestamps provided"]
    ELSE IF \E i \in 1..Len(ts) : ts[i] = None
    THEN [ok |-> FALSE, v |-> None, err |-> "AttributeError"]
    ELSE LET times == SortTimes([i \in 1..Len(ts) |-> FromIsoFormat(ReplaceZ(ts[i]))])
             earliest == times[1]
             latest == times[Len(times)]
             diff_seconds == Instant(latest) - Instant(earliest)
         IN IF SpanExceeded(diff_seconds)
            THEN [ok |-> FALSE, v |-> None,
                  err |-> "ValueError: Timestamps are not within 2 hours of each other"]
            ELSE [ok |-> TRUE, v |-> IsoFormatZ(earliest), err |-> ""]

(***************************************************************************)
(* merge_data_files.main                                                   *)
(***************************************************************************)
NoFile == [written |-> FALSE, doc |-> {}, timestamp |-> None]

MergeInit ==
    /\ heap = << <<>> >>          \* merged = {}
    /\ merged = 1
    /\ inputs = <<>>
    /\ timestamps = <<>>          \* timestamps = []
    /\ mpc = "loop"
    /\ merr = ""
    /\ outfile = NoFile

\* merge_data_files.py is not running
MergeIdle ==
    /\ heap = << <<>> >>
    /\ merged = 1
    /\ inputs = <<>>
    /\ timestamps = <<>>
    /\ mpc = "idle"
    /\ merr = ""
    /\ outfile = NoFile

\* process_eessi_software_metadata.py is not running
ProcIdle ==
    /\ eessi = <<>>
    /\ done = 0
    /\ all_software_information = <<>>
    /\ all_extension_information = <<>>
    /\ ppc = "idle"
    /\ perr = ""
    /\ catalogs = {}

\* no record is with the classifier
ClassIdle ==
    /\ rec = <<>>
    /\ cls = <<>>

\* One iteration of the loop over input_files: the file holds document `doc`
\* and timestamp `ts` (popped from the data before the merge).
LoadFile(doc, ts) ==
    /\ mpc = "loop"
    /\ Len(inputs) < Len(InputFiles)
    /\ LET data == AllocTree(heap, doc)
           r == strict_merge(data.h, Ref(merged), Ref(data.id), "")
       IN /\ heap' = r.h
          /\ inputs' = Append(inputs, [root |-> data.id, doc |-> doc])
          /\ timestamps' = Append(timestamps, ts)
          /\ IF r.err = NoErr
             THEN /\ merged' = r.v.v
                  /\ mpc' = "loop"
                  /\ merr' = ""
             ELSE /\ merged' = merged
                  /\ mpc' = "failed"
                  /\ merr' = "ValueError: Conflict at " \o r.err[1]
    /\ UNCHANGED <<outfile, procVars, classVars>>

\* The position from which main opens the output file.
WritePositionAfterFailure == "failed"
WritePosition == "write"

\* merged["timestamp"] = earliest_if_within_two_hours(timestamps=timestamps)
\* (the loop is over: input_files held the Len(inputs) >= 1 files read so far)
Reconcile ==
    /\ mpc = "loop"
    /\ Len(inputs) >= 1
    /\ LET r == earliest_if_within_two_hours(timestamps)
       IN IF r.ok
          THEN /\ mpc' = "write"
               /\ merr' = ""
               /\ outfile' = [outfile EXCEPT !.timestamp = r.v]
          ELSE /\ mpc' = "failed"
               /\ merr' = r.err
               /\ outfile' = outfile
    /\ UNCHANGED <<heap, merged, inputs, timestamps, procVars, classVars>>

\* with open(output_file, "w") as out: yaml.dump(merged, out)
Write ==
    /\ mpc = WritePosition
    /\ outfile' = [outfile EXCEPT !.written = TRUE, !.doc = Flat(heap, merged, <<>>)]
    /\ mpc' = "done"
    /\ UNCHANGED <<heap, merged, inputs, timestamps, merr, procVars, classVars>>

Stamp0 == [wall |-> 0, zone |-> "Z"]

\* the loop of main alone, over documents of every shape
MergeNext == \E doc \in Docs : LoadFile(doc, Stamp0)

LoopInit == MergeInit /\ ProcIdle /\ ClassIdle

SpecMerge == LoopInit /\ [][MergeNext]_vars

\* main past its loop, having read n files that hold a timestamp and nothing else
TimeInit ==
    \E n \in 1..MaxStamps :
        /\ heap = [i \in 1..(n + 1) |-> <<>>]
        /\ merged = 1
        /\ inputs = [i \in 1..n |-> [root |-> i + 1, doc |-> <<>>]]
        /\ timestamps \in [1..n -> Stamps]
        /\ mpc = "loop"
        /\ merr = ""
        /\ outfile = NoFile
        /\ ProcIdle
        /\ ClassIdle

TimeNext ==
    \/ Reconcile
    \/ Write

SpecTime == TimeInit /\ [][TimeNext]_vars

(***************************************************************************)
(* process_eessi_software_metadata.py                                      *)
(***************************************************************************)
\* An architecture is the sequence of its path segments.
ARCHITECTURES == <<
    <<"aarch64", "generic">>,
    <<"aarch64", "a64fx">>,
    <<"aarch64", "neoverse_n1">>,
    <<"aarch64", "neoverse_v1">>,
    <<"aarch64", "nvidia", "grace">>,
    <<"x86_64", "generic">>,
    <<"x86_64", "amd", "zen2">>,
    <<"x86_64", "amd", "zen3">>,
    <<"x86_64", "amd", "zen4">>,
    <<"x86_64", "intel", "haswell">>,
    <<"x86_64", "intel", "skylake_avx512">>,
    <<"x86_64", "intel", "sapphirerapids">>,
    <<"x86_64", "intel", "icelake">>,
    <<"x86_64", "intel", "cascadelake">> >>

TOOLCHAIN_FAMILIES == <<"foss_2025a", "foss_2024a", "foss_2023b", "foss_2023a", "foss_2022b">>

Range(seq) == {seq[i] : i \in 1..Len(seq)}

\* f"/{arch}/" in original_path, for a path given by its segments: the
\* segments of arch appear in a row and are not the last ones of the path.
ArchInPath(arch, path) ==
    \E i \in 1..Len(path) :
        /\ i + Len(arch) <= Len(path)
        /\ SubSeq(path, i, i + Len(arch) - 1) = arch

\* the first architecture of ARCHITECTURES in the path; 0 is None
DetectedArch(path) ==
    IF \E n \in 1..Len(ARCHITECTURES) : ArchInPath(ARCHITECTURES[n], path)
    THEN CHOOSE n \in 1..Len(ARCHITECTURES) :
            /\ ArchInPath(ARCHITECTURES[n], path)
            /\ \A m \in 1..(n - 1) : ~ArchInPath(ARCHITECTURES[m], path)
    ELSE 0

\* subprocess.run(["grep", "-q", ...]).returncode for the spider cache of
\* arch: 2 when the cache cannot be read (fm.unreadable), 0 when it lists the
\* module (fm.index), 1 when it does not
GrepReturnCode(fm, arch) ==
    IF arch \in fm.unreadable THEN 2
    ELSE IF arch \in fm.index THEN 0 ELSE 1

\* a lookup that failed counts as found
CpuArchListed(fm) == SelectSeq(ARCHITECTURES, LAMBDA arch : GrepReturnCode(fm, arch) # 1)
\* the architectures whose spider cache lists the module (grep -q returns 0),
\* in the order of ARCHITECTURES
CpuArch(fm) == SelectSeq(ARCHITECTURES, LAMBDA arch : GrepReturnCode(fm, arch) = 0)

\* [key for key in toolchain_families.keys() if toolchain in toolchain_families[key]]
\* (toolchain_families: the sequence of <<family, set of toolchains>>)
Compatibility(toolchain, toolchain_families) ==
    LET hit == SelectSeq(toolchain_families, LAMBDA e : toolchain \in e[2])
    IN [i \in 1..Len(hit) |-> hit[i][1]]

base_version_dict(fm, toolchain_families) ==
    [homepage |-> fm.homepage,
     license |-> <<>>,
     image |-> "",
     categories |-> <<>>,
     identifier |-> "",
     toolchain |-> fm.toolchain,
     toolchain_families_compatibility |-> Compatibility(fm.toolchain, toolchain_families),
     modulename |-> fm.short_mod_name,
     required_modules |-> fm.required_modules,
     cpu_arch |-> CpuArch(fm),
     gpu_arch |-> <<>>]

\* the version_dict of the software itself
\* the description is the name of the software, not its description
SoftwareVersionNamed(fm, base) ==
    base @@ [description |-> <<fm.name>>,
             version |-> fm.version,
             versionsuffix |-> fm.versionsuffix]
SoftwareVersion(fm, base) ==
    base @@ [description |-> <<fm.description>>,
             version |-> fm.version,
             versionsuffix |-> fm.versionsuffix]

\* the if/elif chain over file_metadata["easyblocks"]
ExtTypeNoError(easyblocks) ==
    IF "rpackage.py" \in Range(easyblocks) THEN "r"
    ELSE IF "perlmodule.py" \in Range(easyblocks) THEN "perl"
    ELSE IF "octavepackage.py" \in Range(easyblocks) THEN "octave"
    ELSE IF "rubygem.py" \in Range(easyblocks) THEN "ruby"
    ELSE "python"
ExtType(easyblocks) ==
    IF "pythonpackage.py" \in Range(easyblocks) THEN "python"
    ELSE IF "rpackage.py" \in Range(easyblocks) THEN "r"
    ELSE IF "perlmodule.py" \in Range(easyblocks) THEN "perl"
    ELSE IF "octavepackage.py" \in Range(easyblocks) THEN "octave"
    ELSE IF "rubygem.py" \in Range(easyblocks) THEN "ruby"
    ELSE "unknown"

ExtLabel(type) ==
    CASE type = "python" -> " is a Python package included in the software module for "
      [] type = "r" -> " is an R package included in the software module for "
      [] type = "perl" -> " is a Perl module package included in the software module for "
      [] type = "octave" -> " is an Octave package included in the software module for "
      [] type = "ruby" -> " is an Ruby gem included in the software module for "

\* version_dict["parent_software"] of an extension
ExtParent(fm) ==
    [name |-> fm.name, version |-> fm.version, versionsuffix |-> fm.versionsuffix]

\* version_dict["parent_software"] of a component: the dict display names the
\* key "version" twice, and the second value replaces the first
ComponentParent(fm) ==
    [name |-> fm.name, version |-> fm.versionsuffix]

\* a description is the sequence of the pieces the f-string joins
ExtVersion(fm, base, ext, type) ==
    base @@ [version |-> ext[2],
             versionsuffix |-> "",
             parent_software |-> ExtParent(fm),
             description |-> <<ext[1], ExtLabel(type), ExtParent(fm).name>>]

ComponentVersion(fm, base, component) ==
    base @@ [version |-> component[2],
             versionsuffix |-> "",
             type |-> "Component",
             parent_software |-> ComponentParent(fm),
             description |-> <<component[1],
                               " is a component included in the software module for ",
                               ComponentParent(fm).name>>]

\* <type>_extensions[ext[0]] = {"versions": [], "parent_software": set()},
\* then the append and the add: the entry of the name is made anew
PutExtension(bucket, name, version_dict) ==
    (name :> [versions |-> <<version_dict>>,
              parent_software |-> {version_dict.parent_software.name}]) @@ bucket

\* components[component[0]] is made only if the name is not there yet
PutComponent(bucket, name, version_dict) ==
    IF name \in DOMAIN bucket
    THEN [bucket EXCEPT ![name] =
            [versions |-> Append(@.versions, version_dict),
             parent_software |-> @.parent_software \cup {version_dict.parent_software.name}]]
    ELSE (name :> [versions |-> <<version_dict>>,
                   parent_software |-> {version_dict.parent_software.name}]) @@ bucket

EmptyDict == <<>>
ExtKeys == <<"python", "perl", "r", "octave", "ruby", "component">>
NoExtensions == [key \in Range(ExtKeys) |-> EmptyDict]

\* for ext in file_metadata["exts_list"]
RECURSIVE ExtLoop(_, _, _, _)
ExtLoop(fm, base, exts, buckets) ==
    IF exts = <<>> THEN [err |-> "", exts |-> buckets]
    ELSE LET type == ExtType(fm.easyblocks)
         IN IF type = "unknown"
            THEN [err |-> "ValueError: Only known extension types are R, Python and Perl!",
                  exts |-> buckets]
            ELSE ExtLoop(fm, base, Tail(exts),
                         [buckets EXCEPT ![type] =
                            PutExtension(@, exts[1][1], ExtVersion(fm, base, exts[1], type))])

\* for component in file_metadata["components"]
RECURSIVE ComponentLoop(_, _, _, _)
ComponentLoop(fm, base, comps, bucket) ==
    IF comps = <<>> THEN bucket
    ELSE ComponentLoop(fm, base, Tail(comps),
                       PutComponent(bucket, comps[1][1], ComponentVersion(fm, base, comps[1])))

NoResult == [err |-> "", software |-> EmptyDict, exts |-> EmptyDict]

\* fm holds file_metadata and, as fm.path and fm.index, the path of the file
\* and what the spider caches answer
get_software_information_by_filename(fm, toolchain_families) ==
    IF DetectedArch(fm.path) = 0
    THEN [NoResult EXCEPT !.err = "RuntimeError: No known architecture matched in the input path."]
    ELSE LET base == base_version_dict(fm, toolchain_families)
             software == fm.name :> [versions |-> <<SoftwareVersion(fm, base)>>]
             e == ExtLoop(fm, base, fm.exts_list, NoExtensions)
         IN IF e.err # ""
            THEN [NoResult EXCEPT !.err = e.err]
            ELSE [err |-> "",
                  software |-> software,
                  exts |-> IF fm.has_components
                           THEN [e.exts EXCEPT !["component"] =
                                    ComponentLoop(fm, base, fm.components, @)]
                           ELSE e.exts]

(***************************************************************************)
(* get_all_software: the aggregation                                       *)
(***************************************************************************)
VersionsOf(dict, name) == IF name \in DOMAIN dict THEN dict[name].versions ELSE <<>>
ParentsOf(dict, name) == IF name \in DOMAIN dict THEN dict[name].parent_software ELSE {}

\* all_software_information[software]["versions"] = updates, not extend
AddSoftwareReplacing(all_software, updates) ==
    [name \in DOMAIN all_software \cup DOMAIN updates |->
        IF name \in DOMAIN updates THEN [versions |-> updates[name].versions]
        ELSE all_software[name]]
\* for software in software_updates.keys(): ... ["versions"].extend(...)
AddSoftware(all_software, updates) ==
    [name \in DOMAIN all_software \cup DOMAIN updates |->
        [versions |-> VersionsOf(all_software, name) \o VersionsOf(updates, name)]]

\* for extension in extensions_updates[key].keys(): extend and update
AddExtensions(all_of_key, updates) ==
    [name \in DOMAIN all_of_key \cup DOMAIN updates |->
        [versions |-> VersionsOf(all_of_key, name) \o VersionsOf(updates, name),
         parent_software |-> ParentsOf(all_of_key, name) \cup ParentsOf(updates, name)]]

\* the keys of all_extension_information are made at the first file
InitExtensionKeys(all_extension, updates) ==
    [key \in DOMAIN all_extension \cup DOMAIN updates |->
        IF key \in DOMAIN all_extension THEN all_extension[key] ELSE EmptyDict]

\* the body of the loop over the files, for the result r of the classifier
Aggregate(acc, r) ==
    LET keyed == InitExtensionKeys(acc.exts, r.exts)
    IN [software |-> AddSoftware(acc.software, r.software),
        exts |-> [key \in DOMAIN keyed |-> AddExtensions(keyed[key], r.exts[key])]]

(***************************************************************************)
(* get_all_software: the reference version of an entry                     *)
(***************************************************************************)
\* for version in versions: if toolchain_family in version[...]: reference = version
\* (the reference is the index of the version in the list, 0 for None)
RECURSIVE ScanVersions(_, _, _, _)
ScanVersions(versions, toolchain_family, i, reference) ==
    IF i > Len(versions) THEN reference
    ELSE ScanVersions(versions, toolchain_family, i + 1,
            IF toolchain_family \in Range(versions[i].toolchain_families_compatibility)
            THEN i ELSE reference)

\* for toolchain_family in TOOLCHAIN_FAMILIES
RECURSIVE ScanFamilies(_, _, _)
ScanFamilies(versions, k, reference) ==
    IF k > Len(TOOLCHAIN_FAMILIES) THEN reference
    ELSE ScanFamilies(versions, k + 1,
                      ScanVersions(versions, TOOLCHAIN_FAMILIES[k], 1, reference))

Compatible(version, k) ==
    TOOLCHAIN_FAMILIES[k] \in Range(version.toolchain_families_compatibility)

\* the scan stopped at the first match
ReferenceFirstMatch(versions) ==
    IF \E k \in 1..Len(TOOLCHAIN_FAMILIES), i \in 1..Len(versions) : Compatible(versions[i], k)
    THEN LET k == CHOOSE k \in 1..Len(TOOLCHAIN_FAMILIES) :
                    /\ \E i \in 1..Len(versions) : Compatible(versions[i], k)
                    /\ \A j \in 1..(k - 1) : \A i \in 1..Len(versions) : ~Compatible(versions[i], j)
         IN CHOOSE i \in 1..Len(versions) :
                /\ Compatible(versions[i], k)
                /\ \A j \in 1..(i - 1) : ~Compatible(versions[j], k)
    ELSE 0
\* an entry without a match takes its first version
ReferenceOrFirst(versions) ==
    IF ScanFamilies(versions, 1, 0) = 0 THEN 1 ELSE ScanFamilies(versions, 1, 0)
ReferenceVersion(versions) == ScanFamilies(versions, 1, 0)

top_level_info_list == {"homepage", "license", "image", "categories", "identifier"}

\* A name as the pattern [\w-]+ sees it: the runs of word characters and
\* hyphens, and the other characters between them.
WordRuns(name) ==
    CASE name = "Boost.MPI" -> <<"Boost", ".", "MPI">>
      [] name = "GTK+" -> <<"GTK", "+">>
      [] OTHER -> <<name>>
IsWordRun(run) == run \notin {".", "+"}

\* re.sub(r"\b[\w-]+\b(?=\s*$)", str(parent_software), description): the
\* description ends with the name of the parent; the run of word characters
\* and hyphens that ends the text gives way to the display of the set, and a
\* text that ends otherwise is left as it is.  `pieces` is the text kept in
\* front of the set.
SynthesizeDescription(description, parent_software) ==
    LET runs == WordRuns(description[Len(description)])
        kept == SubSeq(description, 1, Len(description) - 1) \o
                SubSeq(runs, 1, Len(runs) - 1)
    IN IF IsWordRun(runs[Len(runs)])
       THEN [pieces |-> kept, parent_software |-> parent_software, substituted |-> TRUE]
       ELSE [pieces |-> Append(kept, runs[Len(runs)]), parent_software |-> {},
             substituted |-> FALSE]

SelectedSoftware(entry) ==
    LET reference_version == entry.versions[ReferenceVersion(entry.versions)]
    IN [f \in top_level_info_list \cup {"description"} |-> reference_version[f]] @@ entry

SelectedExtension(entry) ==
    LET reference_version == entry.versions[ReferenceVersion(entry.versions)]
    IN [f \in top_level_info_list |-> reference_version[f]] @@
       [description |-> SynthesizeDescription(reference_version.description,
                                              entry.parent_software),
        versions |-> entry.versions]

(***************************************************************************)
(* The input of process_eessi_software_metadata.py                         *)
(***************************************************************************)
EessiVersions == {"2025.06", "2023.06"}

\* the toolchain_hierarchy block of a distribution version
Hierarchy(eessi_version) ==
    IF eessi_version = "2025.06"
    THEN << <<"foss_2025a", {"system", "GCC-14.2.0"}>>,
            <<"foss_2024a", {"system", "GCC-13.3.0"}>> >>
    ELSE << <<"foss_2023b", {"system", "GCC-13.2.0"}>>,
            <<"foss_2023a", {"system", "GCC-12.3.0"}>> >>

ZEN2 == <<"x86_64", "amd", "zen2">>

\* the build record of software `name`, built with `toolchain` in
\* distribution `ver`, of one of five kinds: "plain" without extensions,
\* "python" with one Python extension, "component" with one component,
\* "unknown" with an extension no easyblock accounts for, "noarch" under a
\* path without architecture
BuildRecord(ver, toolchain, name, kind) ==
    [name |-> name,
     version |-> "1.0",
     versionsuffix |-> "",
     description |-> "about " \o name \o " (" \o kind \o ", " \o toolchain \o ")",
     homepage |-> "https://" \o name \o ".org/" \o kind \o "/" \o toolchain,
     toolchain |-> toolchain,
     short_mod_name |-> name \o "/1.0",
     required_modules |-> <<>>,
     exts_list |-> IF kind \in {"python", "unknown"} THEN << <<"ext", "0.1">> >> ELSE <<>>,
     has_components |-> kind = "component",
     components |-> IF kind = "component" THEN << <<"comp", "0.2">> >> ELSE <<>>,
     easyblocks |-> CASE kind = "python" -> <<"pythonbundle.py", "pythonpackage.py">>
                      [] kind = "unknown" -> <<"juliapackage.py">>
                      [] kind = "component" -> <<"bundle.py">>
                      [] OTHER -> <<"configuremake.py">>,
     path |-> IF kind = "noarch"
              THEN <<"cvmfs", ver, "software", name, kind \o "-" \o toolchain \o ".eb">>
              ELSE <<"cvmfs", ver, "software", "linux">> \o ZEN2 \o
                   <<"software", name, kind \o "-" \o toolchain \o ".eb">>,
     index |-> {ZEN2, <<"aarch64", "generic">>},
     unreadable |-> {}]

ToolchainsUsed(ver) ==
    IF ver = "2025.06" THEN {"GCC-14.2.0"} ELSE {"system", "intel-2023a"}

RecordsOf(ver) ==
    {BuildRecord(ver, tc, name, kind) :
        tc \in ToolchainsUsed(ver), name \in {"A", "Boost.MPI"}, kind \in {"plain", "python"}}
    \cup {BuildRecord(ver, tc, "A", kind) :
        tc \in ToolchainsUsed(ver), kind \in {"component", "unknown", "noarch"}}

InjSeqs(S, n) ==
    {q \in UNION {[1..m -> S] : m \in 0..n} : \A i, j \in 1..Len(q) : q[i] = q[j] => i = j}

VersionOrders == InjSeqs(EessiVersions, Cardinality(EessiVersions))

\* eessi_files_by_eessi_version: the distribution versions in the order of
\* the dict, each with its hierarchy and its files in the order of the dict
FilesByVersion ==
    UNION {{("2025.06" :> new) @@ ("2023.06" :> old) :
                old \in InjSeqs(RecordsOf("2023.06"), MaxRecords - Len(new))} :
           new \in InjSeqs(RecordsOf("2025.06"), MaxRecords)}

EessiInputs ==
    {[i \in 1..Len(order) |->
        [version |-> order[i],
         toolchain_hierarchy |-> Hierarchy(order[i]),
         files |-> files[order[i]]]] :
     order \in VersionOrders, files \in FilesByVersion}

\* the files in the order get_all_software meets them, each with the
\* hierarchy of its distribution version
RECURSIVE AllFilesOf(_)
AllFilesOf(blocks) ==
    IF blocks = <<>> THEN <<>>
    ELSE [i \in 1..Len(blocks[1].files) |->
            [fm |-> blocks[1].files[i], th |-> blocks[1].toolchain_hierarchy]]
         \o AllFilesOf(Tail(blocks))
AllFiles == AllFilesOf(eessi)

(***************************************************************************)
(* process_eessi_software_metadata.main and get_all_software               *)
(***************************************************************************)
ProcInit ==
    /\ eessi \in EessiInputs
    /\ done = 0
    /\ all_software_information = EmptyDict
    /\ all_extension_information = EmptyDict
    /\ ppc = "aggregate"
    /\ perr = ""
    /\ catalogs = {}

\* one file of the loops over the versions and their files
ProcessFile ==
    /\ ppc = "aggregate"
    /\ done < Len(AllFiles)
    /\ LET file == AllFiles[done + 1]
           r == get_software_information_by_filename(file.fm, file.th)
           acc == Aggregate([software |-> all_software_information,
                             exts |-> all_extension_information], r)
       IN IF r.err # ""
          THEN /\ ppc' = "failed"
               /\ perr' = r.err
               /\ UNCHANGED <<all_software_information, all_extension_information>>
          ELSE /\ all_software_information' = acc.software
               /\ all_extension_information' = acc.exts
               /\ UNCHANGED <<ppc, perr>>
    /\ done' = done + 1
    /\ UNCHANGED <<eessi, catalogs, mergeVars, classVars>>

\* for software in all_software_information.keys(): the reference and its fields
SelectSoftware ==
    /\ ppc = "aggregate"
    /\ done = Len(AllFiles)
    /\ IF \E name \in DOMAIN all_software_information :
            ReferenceVersion(all_software_information[name].versions) = 0
       THEN /\ ppc' = "failed"
            /\ perr' = "ValueError: No toolchain compatibility"
            /\ UNCHANGED all_software_information
       ELSE /\ all_software_information' =
                [name \in DOMAIN all_software_information |->
                    SelectedSoftware(all_software_information[name])]
            /\ ppc' = "extensions"
            /\ UNCHANGED perr
    /\ UNCHANGED <<eessi, done, all_extension_information, catalogs, mergeVars, classVars>>

\* for key in all_extension_information.keys(): the same for its entries
SelectExtensions ==
    /\ ppc = "extensions"
    /\ IF \E key \in DOMAIN all_extension_information :
            \E name \in DOMAIN all_extension_information[key] :
                ReferenceVersion(all_extension_information[key][name].versions) = 0
       THEN /\ ppc' = "failed"
            /\ perr' = "ValueError: No toolchain compatibility"
            /\ UNCHANGED all_extension_information
       ELSE /\ all_extension_information' =
                [key \in DOMAIN all_extension_information |->
                    [name \in DOMAIN all_extension_information[key] |->
                        SelectedExtension(all_extension_information[key][name])]]
            /\ ppc' = "write"
            /\ UNCHANGED perr
    /\ UNCHANGED <<eessi, done, all_software_information, catalogs, mergeVars, classVars>>

\* return {"software": all_software_information, **all_extension_information}
ResultKeys == {"software"} \cup DOMAIN all_extension_information

FileSuffix(key) == IF key = "software" THEN key ELSE "ext-" \o key

KeyOrderOfResult == <<"software">> \o ExtKeys
ToWrite == SelectSeq(KeyOrderOfResult, LAMBDA key : key \in ResultKeys)

\* the position from which main writes the catalogs
CatalogPosition == {"write"}

\* for key in full_software_information.keys(): one catalog file
WriteCatalog ==
    /\ ppc \in CatalogPosition
    /\ Cardinality(catalogs) < Len(ToWrite)
    /\ catalogs' = catalogs \cup {FileSuffix(ToWrite[Cardinality(catalogs) + 1])}
    /\ ppc' = IF Cardinality(catalogs') = Len(ToWrite) THEN "done" ELSE ppc
    /\ UNCHANGED <<eessi, done, all_software_information, all_extension_information,
                   perr, mergeVars, classVars>>

(***************************************************************************)
(* A run of either script.                                                 *)
(***************************************************************************)
MainDocs == {<<>>,
             << <<"a", Scalar(1)>> >>,
             << <<"a", Scalar(2)>> >>,
             << <<"a", Map(<<>>)>> >>}
MainStamps == {[wall |-> w, zone |-> "Z"] : w \in {0, 7200, 7201}}

Init ==
    \/ MergeInit /\ ProcIdle /\ ClassIdle
    \/ ProcInit /\ MergeIdle /\ ClassIdle

Next ==
    \/ \E doc \in MainDocs, ts \in MainStamps : LoadFile(doc, ts)
    \/ Reconcile
    \/ Write
    \/ ProcessFile
    \/ SelectSoftware
    \/ SelectExtensions
    \/ WriteCatalog

Spec == Init /\ [][Next]_vars

(***************************************************************************)
(* The classifier alone, over build records of every shape.                *)
(***************************************************************************)
Tuples(S, n) == UNION {[1..m -> S] : m \in 0..n}

ClassEasyblocks ==
    {<<"configuremake.py">>, <<"juliapackage.py">>, <<"bundle.py">>,
     <<"pythonpackage.py">>, <<"rpackage.py">>, <<"perlmodule.py">>,
     <<"octavepackage.py">>, <<"rubygem.py">>,
     <<"pythonbundle.py", "pythonpackage.py">>,
     <<"rpackage.py", "pythonpackage.py">>}

ClassPaths ==
    {<<"cvmfs", "2025.06", "software", "linux">> \o ZEN2 \o <<"software", "A", "A.eb">>,
     <<"cvmfs", "2025.06", "software", "linux", "aarch64", "generic", "software", "A", "A.eb">>,
     <<"cvmfs", "2025.06", "software", "A", "A.eb">>}

\* what the spider caches answer: listed for two architectures; listed for
\* two, the cache of the architecture of the path being unreadable; listed
\* for none
ClassLookups ==
    {[index |-> {ZEN2, <<"aarch64", "generic">>}, unreadable |-> {}],
     [index |-> {ZEN2, <<"x86_64", "generic">>}, unreadable |-> {ZEN2}],
     [index |-> {}, unreadable |-> {}]}

ClassRecords ==
    {[name |-> "A",
      version |-> "1.0",
      versionsuffix |-> suffix,
      description |-> "about A",
      homepage |-> "https://A.org",
      toolchain |-> "GCC-14.2.0",
      short_mod_name |-> "A/1.0" \o suffix,
      required_modules |-> <<>>,
      exts_list |-> exts,
      has_components |-> comps.present,
      components |-> comps.list,
      easyblocks |-> easyblocks,
      path |-> path,
      index |-> lookup.index,
      unreadable |-> lookup.unreadable] :
     suffix \in {"", "-CUDA"},
     exts \in Tuples({<<"e", "1">>, <<"e", "2">>, <<"f", "1">>}, MaxExts),
     comps \in {[present |-> FALSE, list |-> <<>>]} \cup
               {[present |-> TRUE, list |-> l] :
                    l \in Tuples({<<"c", "1">>, <<"c", "2">>}, MaxComps)},
     easyblocks \in ClassEasyblocks,
     path \in ClassPaths,
     lookup \in ClassLookups}

ClassInit ==
    /\ rec \in ClassRecords
    /\ cls = <<>>
    /\ MergeIdle
    /\ ProcIdle

\* software_updates, extensions_updates = get_software_information_by_filename(...)
Classify ==
    /\ rec # <<>>
    /\ cls = <<>>
    /\ cls' = get_software_information_by_filename(rec, Hierarchy("2025.06"))
    /\ UNCHANGED <<rec, mergeVars, procVars>>

SpecClassify == ClassInit /\ [][Classify]_vars

(***************************************************************************)
(* Properties of strict_merge                                              *)
(***************************************************************************)
\* Two mappings disagree when some field path has an entry in both and the
\* entries differ: two different scalars, or a mapping against a scalar.
Disagree(A, B) == \E x \in A, y \in B : x.p = y.p /\ x # y

LastDoc == inputs[Len(inputs)].doc

\* C1: strict_merge(a, b) never silently overwrites.  A merge of the
\* accumulator a with a document b raises exactly when a and b disagree on a
\* field path present in both (different non-mappings, or a mapping against a
\* non-mapping); otherwise the result holds, path by path, exactly the entries
\* of a and the entries of b: common mappings are merged recursively and a key
\* of one side only is adopted with its value unchanged.
C1_NoSilentOverwrite ==
    [][Len(inputs') = Len(inputs) + 1 =>
         LET A == Flat(heap, merged, <<>>)
             B == FlatTree(inputs'[Len(inputs')].doc, <<>>)
         IN IF Disagree(A, B)
            THEN mpc' = "failed" /\ merged' = merged
            ELSE mpc' = "loop" /\ Flat(heap', merged', <<>>) = A \cup B]_vars

\* a merge of two documents that both hold a nested mapping under one key and
\* a key the other lacks has succeeded
C1_Witness ==
    /\ mpc = "loop"
    /\ Len(inputs) = 2
    /\ \E k \in DocKeys :
         /\ HasKey(inputs[1].doc, k) /\ HasKey(inputs[2].doc, k)
         /\ GetKey(inputs[1].doc, k).t = "m" /\ GetKey(inputs[2].doc, k).t = "m"
         /\ GetKey(inputs[1].doc, k) # GetKey(inputs[2].doc, k)
         /\ Cardinality(Flat(heap, merged, <<>>)) = 4

(***************************************************************************)
(* Folds of documents, in any order and grouping, each on a heap of its    *)
(* own.  A result is the merged mapping, or the error raised.              *)
(***************************************************************************)
Outcome(r) == IF r.err # NoErr THEN [ok |-> FALSE, doc |-> {}]
              ELSE [ok |-> TRUE, doc |-> Flat(r.h, r.v.v, <<>>)]

\* merged = {}; for each document: merged = strict_merge(merged, data)
RECURSIVE FoldMain(_, _, _)
FoldMain(h, acc, docs) ==
    IF docs = <<>> THEN [h |-> h, v |-> Ref(acc), err |-> NoErr]
    ELSE LET data == AllocTree(h, docs[1])
             r == strict_merge(data.h, Ref(acc), Ref(data.id), "")
         IN IF r.err # NoErr THEN r ELSE FoldMain(r.h, r.v.v, Tail(docs))

\* strict_merge(strict_merge(A, B), C)
GroupLeft(A, B, C) ==
    LET a == AllocTree(<<>>, A)
        b == AllocTree(a.h, B)
        c == AllocTree(b.h, C)
        r1 == strict_merge(c.h, Ref(a.id), Ref(b.id), "")
    IN IF r1.err # NoErr THEN r1 ELSE strict_merge(r1.h, r1.v, Ref(c.id), "")

\* strict_merge(A, strict_merge(B, C))
GroupRight(A, B, C) ==
    LET a == AllocTree(<<>>, A)
        b == AllocTree(a.h, B)
        c == AllocTree(b.h, C)
        r1 == strict_merge(c.h, Ref(b.id), Ref(c.id), "")
    IN IF r1.err # NoErr THEN r1 ELSE strict_merge(r1.h, Ref(a.id), r1.v, "")

\* strict_merge(A, A), on one object and on two equal ones
MergeSelf(A) ==
    LET a == AllocTree(<<>>, A)
    IN strict_merge(a.h, Ref(a.id), Ref(a.id), "")
MergeTwo(A, B) ==
    LET a == AllocTree(<<>>, A)
        b == AllocTree(a.h, B)
    IN strict_merge(b.h, Ref(a.id), Ref(b.id), "")

Perms(n) == {f \in [1..n -> 1..n] : \A i, j \in 1..n : f[i] = f[j] => i = j}
InputDocs == [i \in 1..Len(inputs) |-> inputs[i].doc]

\* C2: on conflict-free inputs strict_merge is commutative, associative and
\* idempotent.  When the documents read so far merged without conflict, the
\* fold of the same documents in every other order, and every grouping
\* (A+B)+C and A+(B+C) of every order of three of them, succeeds with the same
\* mapping as the accumulator holds; and strict_merge(A, A) is A.
C2_OrderAndGroupingIrrelevant ==
    (mpc = "loop" /\ Len(inputs) >= 1) =>
        LET n == Len(inputs)
            M == Flat(heap, merged, <<>>)
            want == [ok |-> TRUE, doc |-> M]
        IN /\ \A f \in Perms(n) :
                Outcome(FoldMain(<< <<>> >>, 1, [i \in 1..n |-> InputDocs[f[i]]])) = want
           /\ n = 2 => \A f \in Perms(2) :
                Outcome(MergeTwo(InputDocs[f[1]], InputDocs[f[2]])) = want
           /\ n = 3 => \A f \in Perms(3) :
                /\ Outcome(GroupLeft(InputDocs[f[1]], InputDocs[f[2]], InputDocs[f[3]])) = want
                /\ Outcome(GroupRight(InputDocs[f[1]], InputDocs[f[2]], InputDocs[f[3]])) = want
           /\ \A i \in 1..n :
                LET A == [ok |-> TRUE, doc |-> FlatTree(InputDocs[i], <<>>)]
                IN /\ Outcome(MergeSelf(InputDocs[i])) = A
                   /\ Outcome(MergeTwo(InputDocs[i], InputDocs[i])) = A

\* three different documents, two of them with a nested mapping under the same
\* key, have been folded without conflict
C2_Witness ==
    /\ mpc = "loop"
    /\ Len(inputs) = 3
    /\ Cardinality({inputs[i].doc : i \in 1..3}) = 3
    /\ \E k \in DocKeys : \E i, j \in 1..3 :
         /\ i # j
         /\ HasKey(inputs[i].doc, k) /\ HasKey(inputs[j].doc, k)
         /\ GetKey(inputs[i].doc, k).t = "m" /\ GetKey(inputs[j].doc, k).t = "m"
         /\ GetKey(inputs[i].doc, k) # GetKey(inputs[j].doc, k)

(***************************************************************************)
(* Properties of earliest_if_within_two_hours                              *)
(***************************************************************************)
\* the instant a timestamp text denotes, in seconds (UTC)
Denotes(t) == t.wall - (IF t.zone \in {"Z", "+00:00"} THEN 0 ELSE 3600)
InstantsGiven == {Denotes(timestamps[i]) : i \in 1..Len(timestamps)}
MinOf(S) == CHOOSE x \in S : \A y \in S : x <= y
MaxOf(S) == CHOOSE x \in S : \A y \in S : x >= y
SpanGiven == MaxOf(InstantsGiven) - MinOf(InstantsGiven)
AllStamps == \A i \in 1..Len(timestamps) : timestamps[i] # None

Selected == {"extensions", "write", "done"}
Written == {"write", "done"}

\* the entries of the extension and component partitions, as <<key, name>>
ExtEntries ==
    UNION {{<<key, name>> : name \in DOMAIN all_extension_information[key]} :
           key \in DOMAIN all_extension_information}

FamiliesMatched(versions) ==
    {k \in 1..Len(TOOLCHAIN_FAMILIES) : \E i \in 1..Len(versions) : Compatible(versions[i], k)}
NoMatch(versions) == FamiliesMatched(versions) = {}

\* the record matched last: the last record of the list that is compatible
\* with the last matched family of the priority list
LastMatch(versions) ==
    LET k == MaxOf(FamiliesMatched(versions))
    IN MaxOf({i \in 1..Len(versions) : Compatible(versions[i], k)})
FirstMatch(versions) ==
    LET k == MinOf(FamiliesMatched(versions))
    IN MinOf({i \in 1..Len(versions) : Compatible(versions[i], k)})

AllClassified ==
    \A i \in 1..Len(AllFiles) :
        get_software_information_by_filename(AllFiles[i].fm, AllFiles[i].th).err = ""

\* C4: an entry (software, extension or component) none of whose records is
\* compatible with a family of the priority list makes get_all_software fail:
\* the run never gets past the selection with such an entry, nothing is
\* written, the run that went through every file ends with the error "No
\* toolchain compatibility", and an entry that passed the selection took its
\* fields from a record that is compatible with a family.
C4_NoMatchIsFatal ==
    /\ (\E name \in DOMAIN all_software_information :
            NoMatch(all_software_information[name].versions))
         => /\ ppc \in {"aggregate", "failed"}
            /\ catalogs = {}
            /\ (done = Len(AllFiles) /\ ppc = "failed" /\ AllClassified)
                  => perr = "ValueError: No toolchain compatibility"
    /\ (\E e \in ExtEntries : NoMatch(all_extension_information[e[1]][e[2]].versions))
         => /\ ppc \in {"aggregate", "extensions", "failed"}
            /\ catalogs = {}
    /\ ppc \in Selected =>
         \A name \in DOMAIN all_software_information :
            LET entry == all_software_information[name]
            IN \E i \in 1..Len(entry.versions) :
                  /\ \E k \in 1..Len(TOOLCHAIN_FAMILIES) : Compatible(entry.versions[i], k)
                  /\ entry.homepage = entry.versions[i].homepage

\* every file was classified, one software has no record compatible with a
\* family and another one has, and the run has failed
C4_Witness ==
    /\ ppc = "failed"
    /\ perr = "ValueError: No toolchain compatibility"
    /\ done = Len(AllFiles)
    /\ \E n1, n2 \in DOMAIN all_software_information :
         /\ NoMatch(all_software_information[n1].versions)
         /\ ~NoMatch(all_software_information[n2].versions)

(***************************************************************************)
(* Properties of the aggregation                                           *)
(***************************************************************************)
BagOf(seq) == [x \in Range(seq) |-> Cardinality({i \in 1..Len(seq) : seq[i] = x})]

\* the loops of get_all_software over the files, in the order given
RECURSIVE FoldAggregate(_, _)
FoldAggregate(acc, files) ==
    IF files = <<>> THEN [err |-> "", software |-> acc.software, exts |-> acc.exts]
    ELSE LET r == get_software_information_by_filename(files[1].fm, files[1].th)
         IN IF r.err # "" THEN [err |-> r.err, software |-> <<>>, exts |-> <<>>]
            ELSE FoldAggregate(Aggregate(acc, r), Tail(files))

SameEntries(d1, d2, with_parents) ==
    /\ DOMAIN d1 = DOMAIN d2
    /\ \A name \in DOMAIN d1 :
         /\ BagOf(d1[name].versions) = BagOf(d2[name].versions)
         /\ with_parents => d1[name].parent_software = d2[name].parent_software

\* C6: aggregation is order-independent.  When every file has gone through
\* the loop, the aggregation of the same files in every other order (of the
\* records and of the distribution versions) gives, in every partition, the
\* same names, each with the same multiset of VersionRecords and, for
\* extensions and components, the same parent-name set.
C6_AggregationOrderIndependent ==
    (ppc = "aggregate" /\ done = Len(AllFiles)) =>
        \A f \in Perms(Len(AllFiles)) :
            LET other == FoldAggregate([software |-> <<>>, exts |-> <<>>],
                                       [i \in 1..Len(AllFiles) |-> AllFiles[f[i]]])
            IN /\ other.err = ""
               /\ SameEntries(other.software, all_software_information, FALSE)
               /\ DOMAIN other.exts = DOMAIN all_extension_information
               /\ \A key \in DOMAIN other.exts :
                     SameEntries(other.exts[key], all_extension_information[key], TRUE)

\* two files of two distribution versions went through the loop: one software
\* has two different records, and so has one extension
C6_Witness ==
    /\ ppc = "aggregate"
    /\ done = Len(AllFiles)
    /\ Len(eessi) = 2
    /\ \E name \in DOMAIN all_software_information :
         LET versions == all_software_information[name].versions
         IN Len(versions) >= 2 /\ versions[1] # versions[2]
    /\ \E e \in ExtEntries :
         LET entry == all_extension_information[e[1]][e[2]]
         IN Len(entry.versions) >= 2 /\ entry.versions[1] # entry.versions[2]

(***************************************************************************)
(* Properties of the two main functions                                    *)
(***************************************************************************)
InputsAgree ==
    \A i, j \in 1..Len(inputs) :
        ~Disagree(FlatTree(inputs[i].doc, <<>>), FlatTree(inputs[j].doc, <<>>))

AllSelected ==
    /\ \A name \in DOMAIN all_software_information :
          "description" \in DOMAIN all_software_information[name]
    /\ \A e \in ExtEntries :
          "description" \in DOMAIN all_extension_information[e[1]][e[2]]

\* C7: no partial catalog is written.  The output of merge_data_files.main
\* exists only when every input merged without conflict and the timestamps
\* lie within the tolerance, and it then holds the merge of all the inputs;
\* a catalog of process_eessi_software_metadata.main exists only when every
\* file was classified and aggregated and every entry has its reference; a
\* run that failed has written nothing.
C7_NoPartialCatalog ==
    /\ outfile.written =>
         /\ mpc = "done" /\ merr = ""
         /\ InputsAgree
         /\ outfile.doc = UNION {FlatTree(inputs[i].doc, <<>>) : i \in 1..Len(inputs)}
         /\ SpanGiven <= 7200
         /\ Denotes(outfile.timestamp) = MinOf(InstantsGiven)
    /\ mpc = "failed" => ~outfile.written
    /\ catalogs # {} =>
         /\ ppc \in Written /\ perr = ""
         /\ done = Len(AllFiles)
         /\ AllClassified
         /\ AllSelected
         /\ \A name \in DOMAIN all_software_information :
               ~NoMatch(all_software_information[name].versions)
    /\ ppc = "failed" => catalogs = {}

\* the last of the input files conflicts with the ones merged before it: the
\* run has failed and there is no output file
C7_Witness ==
    /\ mpc = "failed"
    /\ Len(inputs) = Len(InputFiles)
    /\ ~InputsAgree
    /\ ~outfile.written

\* a run of process_eessi_software_metadata.main that went through two files
\* and failed at the reference selection has written no catalog
C7_WitnessCatalogs ==
    /\ ppc = "failed"
    /\ done = Len(AllFiles)
    /\ done >= 2
    /\ AllClassified
    /\ catalogs = {}

\* C8: the mapping returned by get_all_software has exactly the keys
\* software, python, perl, r, octave, ruby and component, whatever the input.
C8_SevenPartitions ==
    ppc \in Written => ResultKeys = {"software"} \cup Range(ExtKeys)

\* the input holds no distribution version, and the only catalog written is
\* the one of the primary software
C8_Witness ==
    /\ ppc = "done"
    /\ eessi = <<>>
    /\ catalogs = {"software"}

(***************************************************************************)
(* Properties of the classifier                                            *)
(***************************************************************************)
Recognised ==
    {"pythonpackage.py", "rpackage.py", "perlmodule.py", "octavepackage.py", "rubygem.py"}
BucketOf(identifier) ==
    CASE identifier = "pythonpackage.py" -> "python"
      [] identifier = "rpackage.py" -> "r"
      [] identifier = "perlmodule.py" -> "perl"
      [] identifier = "octavepackage.py" -> "octave"
      [] identifier = "rubygem.py" -> "ruby"
ExtBuckets == {BucketOf(identifier) : identifier \in Recognised}
ExtNames == {rec.exts_list[i][1] : i \in 1..Len(rec.exts_list)}
Returned == cls # <<>>

\* C9: extension classification is exhaustive.  For a record with at least
\* one extension tuple: when its easyblocks hold none of the five recognised
\* identifiers the classifier raises an error; otherwise (the path naming an
\* architecture) it returns, and the names of all the extensions of the
\* record are the names of the bucket of one recognised identifier of the
\* record, every other extension bucket being empty.
C9_ClassificationExhaustive ==
    (Returned /\ Len(rec.exts_list) >= 1) =>
        IF Range(rec.easyblocks) \cap Recognised = {}
        THEN /\ cls.err # ""
             /\ DetectedArch(rec.path) # 0 =>
                   cls.err = "ValueError: Only known extension types are R, Python and Perl!"
        ELSE DetectedArch(rec.path) # 0 =>
                /\ cls.err = ""
                /\ \E identifier \in Range(rec.easyblocks) \cap Recognised :
                      /\ DOMAIN cls.exts[BucketOf(identifier)] = ExtNames
                      /\ \A name \in ExtNames :
                            Len(cls.exts[BucketOf(identifier)][name].versions) >= 1
                      /\ \A key \in ExtBuckets \ {BucketOf(identifier)} :
                            DOMAIN cls.exts[key] = {}

\* a record with two extensions of different names and the identifier
\* rpackage.py was classified: both are in the bucket r
C9_Witness ==
    /\ Returned
    /\ cls.err = ""
    /\ Cardinality(ExtNames) = 2
    /\ rec.easyblocks = <<"rpackage.py">>
    /\ DOMAIN cls.exts["r"] = ExtNames

\* a record with an extension and no recognised identifier was refused
C9_WitnessUnknown ==
    /\ Returned
    /\ Len(rec.exts_list) >= 1
    /\ rec.easyblocks = <<"juliapackage.py">>
    /\ cls.err = "ValueError: Only known extension types are R, Python and Perl!"

\* the back-reference of a VersionRecord names the record it came from
BackReferenceOf(version_dict) ==
    /\ DOMAIN version_dict.parent_software = {"name", "version", "versionsuffix"}
    /\ version_dict.parent_software.name = rec.name
    /\ version_dict.parent_software.version = rec.version
    /\ version_dict.parent_software.versionsuffix = rec.versionsuffix

\* C10: every extension VersionRecord and every component VersionRecord the
\* classifier returns carries a parent_software with the three fields name,
\* version and versionsuffix, equal to those of the build record.
C10_ParentBackReference ==
    (Returned /\ cls.err = "") =>
        \A key \in DOMAIN cls.exts : \A name \in DOMAIN cls.exts[key] :
            \A i \in 1..Len(cls.exts[key][name].versions) :
                BackReferenceOf(cls.exts[key][name].versions[i])

\* the same for the extension VersionRecords alone
C10_ExtensionBackReference ==
    (Returned /\ cls.err = "") =>
        \A key \in ExtBuckets : \A name \in DOMAIN cls.exts[key] :
            \A i \in 1..Len(cls.exts[key][name].versions) :
                BackReferenceOf(cls.exts[key][name].versions[i])

\* a record of version 1.0 and versionsuffix -CUDA with a component was
\* classified: the parent_software of the component has no versionsuffix,
\* and its version is the versionsuffix of the record
C10_Witness ==
    /\ Returned
    /\ cls.err = ""
    /\ rec.versionsuffix = "-CUDA"
    /\ \E name \in DOMAIN cls.exts["component"] :
         LET ps == cls.exts["component"][name].versions[1].parent_software
         IN /\ DOMAIN ps = {"name", "version"}
            /\ ps.version = "-CUDA"

(***************************************************************************)
(* Properties of the description of an extension or component entry        *)
(***************************************************************************)
\* the names of the build records that hold the extension or component
\* `name` of partition `key`
Contributors(key, name) ==
    {AllFiles[i].fm.name : i \in
        {j \in 1..Len(AllFiles) :
            LET r == get_software_information_by_filename(AllFiles[j].fm, AllFiles[j].th)
            IN r.err = "" /\ name \in DOMAIN r.exts[key]}}

\* C11: the final description of every extension and component entry is the
\* description of its reference record with the trailing name of the parent
\* replaced, as a whole, by the set of the names of all the parents that
\* contribute the entry: in front of the set stand the name of the extension
\* and the sentence of its kind, and nothing else.
C11_DescriptionNamesAllParents ==
    ppc \in Written =>
        \A e \in ExtEntries :
            LET entry == all_extension_information[e[1]][e[2]]
                reference == entry.versions[LastMatch(entry.versions)]
            IN /\ entry.description.substituted
               /\ entry.description.parent_software = Contributors(e[1], e[2])
               /\ entry.description.pieces = SubSeq(reference.description, 1, 2)

\* the same, for entries whose reference has a parent of a one-word name
C11_OneWordParents ==
    ppc \in Written =>
        \A e \in ExtEntries :
            LET entry == all_extension_information[e[1]][e[2]]
                reference == entry.versions[LastMatch(entry.versions)]
            IN Len(WordRuns(reference.parent_software.name)) = 1 =>
                 /\ entry.description.substituted
                 /\ entry.description.parent_software = Contributors(e[1], e[2])
                 /\ entry.description.pieces = SubSeq(reference.description, 1, 2)

\* an extension held by A and by Boost.MPI has Boost.MPI as the parent of its
\* reference: the set names both, and "Boost" and "." are left in front of it
C11_Witness ==
    /\ ppc = "done"
    /\ \E e \in ExtEntries :
         LET entry == all_extension_information[e[1]][e[2]]
         IN /\ entry.description.parent_software = {"A", "Boost.MPI"}
            /\ Len(entry.description.pieces) = 4
            /\ entry.description.pieces[3] = "Boost"
            /\ entry.description.pieces[4] = "."

(***************************************************************************)
(* Round trip of one build record                                          *)
(***************************************************************************)
\* C12: when the input holds one build record, classifying it, aggregating
\* the batch of one and selecting the reference leaves one primary-software
\* entry, under the name of the record, whose description and homepage are
\* those of the build record and whose license is the one of its only
\* VersionRecord (the empty list the classifier gives every record).
C12_RoundTrip ==
    (Len(AllFiles) = 1 /\ ppc \in Selected) =>
        LET fm == AllFiles[1].fm
        IN /\ DOMAIN all_software_information = {fm.name}
           /\ LET entry == all_software_information[fm.name]
              IN /\ Len(entry.versions) = 1
                 /\ entry.description = <<fm.description>>
                 /\ entry.homepage = fm.homepage
                 /\ entry.license = <<>>
                 /\ entry.versions[1].description = entry.description
                 /\ entry.versions[1].homepage = entry.homepage
                 /\ entry.versions[1].license = entry.license

\* the only record of the input, one with an extension, went through the
\* classifier, the aggregation and both selections
C12_Witness ==
    /\ Len(AllFiles) = 1
    /\ ppc = "write"
    /\ AllFiles[1].fm.exts_list # <<>>
    /\ all_software_information[AllFiles[1].fm.name].homepage = AllFiles[1].fm.homepage

(***************************************************************************)
(* Properties of the architecture resolution                               *)
(***************************************************************************)
ArchPosition(arch) == CHOOSE n \in 1..Len(ARCHITECTURES) : ARCHITECTURES[n] = arch

\* the architectures for which the lookup of the module succeeds
Confirmed ==
    {arch \in Range(ARCHITECTURES) : arch \in rec.index /\ arch \notin rec.unreadable}

\* every VersionRecord the classifier returned: of the software, of the
\* extensions and of the components
AllVersionRecords ==
    UNION {Range(cls.software[name].versions) : name \in DOMAIN cls.software} \cup
    UNION {UNION {Range(cls.exts[key][name].versions) : name \in DOMAIN cls.exts[key]} :
           key \in DOMAIN cls.exts}

\* C13: for a path that names a known architecture the classifier raises no
\* error about the architecture, and the cpu_arch of every VersionRecord it
\* returns lists exactly the known architectures whose lookup succeeds, in
\* the order of ARCHITECTURES and each once; a lookup that is negative or
\* fails leaves the architecture out, be it the one of the path.
C13_ArchitectureResolution ==
    (Returned /\ DetectedArch(rec.path) # 0) =>
        /\ cls.err \in {"", "ValueError: Only known extension types are R, Python and Perl!"}
        /\ cls.err = "" =>
             /\ AllVersionRecords # {}
             /\ \A v \in AllVersionRecords :
                  /\ Range(v.cpu_arch) = Confirmed
                  /\ \A i, j \in 1..Len(v.cpu_arch) :
                        i < j => ArchPosition(v.cpu_arch[i]) < ArchPosition(v.cpu_arch[j])

\* a record under a zen2 path, with an extension and a component, whose zen2
\* cache cannot be read: cpu_arch is x86_64/generic alone
C13_Witness ==
    /\ Returned
    /\ cls.err = ""
    /\ ARCHITECTURES[DetectedArch(rec.path)] = ZEN2
    /\ ZEN2 \in rec.unreadable
    /\ Cardinality(AllVersionRecords) >= 3
    /\ \A v \in AllVersionRecords : v.cpu_arch = << <<"x86_64", "generic">> >>

(***************************************************************************)
(* Properties of the conflict error                                        *)
(***************************************************************************)
\* the keys from the root to a field, joined by "."
RECURSIVE Dotted(_)
Dotted(p) ==
    IF Len(p) = 1 THEN p[1]
    ELSE Dotted(SubSeq(p, 1, Len(p) - 1)) \o "." \o p[Len(p)]

\* the field paths to which two documents give different values, and those
\* where both values are non-mappings
ConflictPaths(A, B) ==
    {x.p : x \in {x \in FlatTree(A, <<>>) :
                    \E y \in FlatTree(B, <<>>) : x.p = y.p /\ x # y}}
ScalarConflictPaths(A, B) ==
    {x.p : x \in {x \in FlatTree(A, <<>>) :
                    \E y \in FlatTree(B, <<>>) :
                        x.p = y.p /\ x.t = "s" /\ y.t = "s" /\ x.v # y.v}}

ConflictAt(p) == "ValueError: Conflict at " \o Dotted(p)

\* C14: when two documents give different non-mapping values to one field
\* path, merging the second into the first fails, and the error names a field
\* path on which the two disagree, as the keys from the root joined by "."
\* (the one path, when they disagree on one only); merging the same two
\* documents again, as other objects, reports the same path.  A failed run of
\* main names a path on which its last document disagrees with an earlier one.
C14_ConflictPathReported ==
    /\ (Len(inputs) = 2 /\ ScalarConflictPaths(inputs[1].doc, inputs[2].doc) # {}) =>
          /\ mpc = "failed"
          /\ \E p \in ConflictPaths(inputs[1].doc, inputs[2].doc) :
                /\ merr = ConflictAt(p)
                /\ MergeTwo(inputs[1].doc, inputs[2].doc).err = <<Dotted(p)>>
    /\ mpc = "failed" =>
          \E i \in 1..(Len(inputs) - 1) :
             \E p \in ConflictPaths(inputs[i].doc, LastDoc) : merr = ConflictAt(p)

\* two documents give different numbers to the nested field a.b: the merge
\* has failed and names a.b
C14_Witness ==
    /\ Len(inputs) = 2
    /\ mpc = "failed"
    /\ ScalarConflictPaths(inputs[1].doc, inputs[2].doc) = {<<"a", "b">>}
    /\ merr = "ValueError: Conflict at a.b"

(***************************************************************************)
(* The frame of strict_merge                                               *)
(***************************************************************************)
\* C17: no document read so far, and no mapping nested in one, was modified
\* by its own merge or by a later one: the object that yaml.load made for
\* each still holds what the file held.
C17_InputsUnchanged ==
    \A i \in 1..Len(inputs) :
        Flat(heap, inputs[i].root, <<>>) = FlatTree(inputs[i].doc, <<>>)

\* the same, for the document of the merge that has just raised a conflict
C17_SecondArgumentUnchangedOnConflict ==
    mpc = "failed" =>
        Flat(heap, inputs[Len(inputs)].root, <<>>) = FlatTree(LastDoc, <<>>)

\* the first document holds a mapping under a key, the second one holds a
\* mapping with another entry under the same key: after the second merge the
\* object of the first document has the entry of the second
C17_Witness ==
    /\ Len(inputs) = 2
    /\ mpc = "loop"
    /\ Cardinality(FlatTree(inputs[1].doc, <<>>)) = 3
    /\ Cardinality(Flat(heap, inputs[1].root, <<>>)) = 4
    /\ Flat(heap, inputs[2].root, <<>>) = FlatTree(inputs[2].doc, <<>>)

(***************************************************************************)
(* The result of get_all_software and the order of its input               *)
(***************************************************************************)
\* get_all_software over the files in the order given, for files that all
\* classify and entries that all have a reference
RunInOrder(files) ==
    LET agg == FoldAggregate([software |-> <<>>, exts |-> <<>>], files)
    IN [software |-> [name \in DOMAIN agg.software |-> SelectedSoftware(agg.software[name])],
        exts |-> [key \in DOMAIN agg.exts |->
                    [name \in DOMAIN agg.exts[key] |-> SelectedExtension(agg.exts[key][name])]]]

SharedFields == top_level_info_list \cup {"description"}

\* C15: the shared fields of every entry do not depend on the order of the
\* input.  When a run has selected the reference of every entry, the run over
\* the same build records in every other order gives every entry (software,
\* extension, component) the same description, homepage, license, image,
\* categories and identifier.
C15_ReferenceOrderIndependent ==
    ppc \in Written =>
        \A f \in Perms(Len(AllFiles)) :
            LET other == RunInOrder([i \in 1..Len(AllFiles) |-> AllFiles[f[i]]])
            IN /\ \A name \in DOMAIN all_software_information :
                     \A field \in SharedFields :
                         other.software[name][field] = all_software_information[name][field]
               /\ \A e \in ExtEntries :
                     \A field \in SharedFields :
                         other.exts[e[1]][e[2]][field] =
                             all_extension_information[e[1]][e[2]][field]

\* two records of one software, built with the same toolchain of the same
\* distribution version, went through the selection: the entry has the
\* homepage of the second, which is not the homepage of the first
C15_Witness ==
    /\ ppc = "done"
    /\ \E name \in DOMAIN all_software_information :
         LET entry == all_software_information[name]
         IN /\ Len(entry.versions) = 2
            /\ entry.versions[1].toolchain_families_compatibility =
                  entry.versions[2].toolchain_families_compatibility
            /\ entry.versions[1].homepage # entry.versions[2].homepage
            /\ entry.homepage = entry.versions[2].homepage

(***************************************************************************)
(* The classifier and the number of extensions and components              *)
(***************************************************************************)
\* the VersionRecords of the buckets `keys`, each by its place
RecordsIn(keys) ==
    UNION {UNION {{<<key, name, i>> : i \in 1..Len(cls.exts[key][name].versions)} :
                  name \in DOMAIN cls.exts[key]} :
           key \in keys}

\* C16: the classifier loses no extension and no component.  For a record
\* with a recognised identifier the five extension buckets hold together as
\* many VersionRecords as the record has extension tuples, and the component
\* bucket holds as many as the record has component tuples.
C16_NothingLost ==
    (Returned /\ cls.err = "" /\ Range(rec.easyblocks) \cap Recognised # {}) =>
        /\ Cardinality(RecordsIn(ExtBuckets)) = Len(rec.exts_list)
        /\ Cardinality(RecordsIn({"component"})) = Len(rec.components)

\* the same for the components alone, whatever the easyblocks
C16_NoComponentLost ==
    (Returned /\ cls.err = "") =>
        Cardinality(RecordsIn({"component"})) = Len(rec.components)

\* the same for records whose extension tuples have different names
C16_NothingLostDistinctNames ==
    (Returned /\ cls.err = "" /\ Range(rec.easyblocks) \cap Recognised # {}
       /\ Cardinality(ExtNames) = Len(rec.exts_list)) =>
        Cardinality(RecordsIn(ExtBuckets)) = Len(rec.exts_list)

\* a record with the extension tuples (e, 1) and (e, 2) was classified: the
\* bucket holds one VersionRecord of e, the one of version 2
C16_Witness ==
    /\ Returned
    /\ cls.err = ""
    /\ rec.exts_list = << <<"e", "1">>, <<"e", "2">> >>
    /\ rec.easyblocks = <<"pythonpackage.py">>
    /\ Len(cls.exts["python"]["e"].versions) = 1
    /\ cls.exts["python"]["e"].versions[1].version = "2"

====
